---- MODULE Spec2Model ----
(***************************************************************************)
(* Campus lost-and-found board (src/App.tsx, src/components/Button.tsx,    *)
(* src/unnamed/part_000).  The App component's React state, the remote      *)
(* "posts" collection it writes to, the writes and the snapshot             *)
(* notifications in flight, and the handlers that move between them.        *)
(*                                                                          *)
(* Text is a sequence of one-character strings, so that toLowerCase and     *)
(* includes are computed character by character as JavaScript does.         *)
(***************************************************************************)
EXTENDS Integers, Sequences, FiniteSets, TLC

VARIABLES
    user,           \* useState<User | null>: a uid or NULL
    posts,          \* useState<Post[]>: the local mirror
    loading,        \* useState(true)
    isModalOpen,    \* useState(false)
    searchTerm,     \* useState('')
    filterType,     \* useState('ALL')
    formState,      \* useState<NewPostForm>
    isSubmitting,   \* useState(false)
    create,         \* the suspended handleCreatePost call: its await and what it captured
    inflight,       \* document writes issued and not yet answered, oldest first
    nextId,         \* the next document id the client generates for addDoc
    store,          \* the remote "posts" collection: id -> document data
    clock,          \* the server's clock, read by serverTimestamp()
    subStatus,      \* the onSnapshot subscription: "active" or "failed"
    lastSnap,       \* the documents of the notification handled last (history)
    scenario,       \* which of the optional inputs this run draws on (a bound of the model)
    last            \* the failure the step just taken met and how its handler reacted (NoStep: none)

vars == << user, posts, loading, isModalOpen, searchTerm, filterType, formState,
           isSubmitting, create, inflight, nextId, store, clock,
           subStatus, lastSnap, scenario, last >>

-----------------------------------------------------------------------------
(* Bounds of the model *)

MaxPosts == 2       \* documents the client creates in one run
MaxInflight == 2    \* document writes awaiting their answer at once
MaxMirror == 2      \* length of the mirrors the filter is applied to on its own

\* Every run has the sign-in of account u1, the modal, the required form
\* texts, Create, Resolve, Delete and the listener.  The other inputs are
\* drawn on one group per run, so that their combinations add up instead of
\* multiplying:
\*   "accounts": the second account u2 signs in too, and the sign-in popup fails
\*   "upload":   an image file is attached to the form
\*   "browse":   the search box and the type filter buttons are used
\* The form's type, category, date and phone are left as they are first shown.
\*   "outage":   the subscription breaks, and document writes fail on the way
Scenarios == {"accounts", "upload", "browse", "outage"}

-----------------------------------------------------------------------------
(* Text *)

Upper == << "A","B","C","D","E","F","G","H","I","J","K","L","M",
            "N","O","P","Q","R","S","T","U","V","W","X","Y","Z" >>
Lower == << "a","b","c","d","e","f","g","h","i","j","k","l","m",
            "n","o","p","q","r","s","t","u","v","w","x","y","z" >>

\* String.prototype.toLowerCase, one character
toLowerChar(c) ==
    IF \E i \in 1..Len(Upper) : Upper[i] = c
    THEN Lower[CHOOSE i \in 1..Len(Upper) : Upper[i] = c]
    ELSE c

\* String.prototype.toLowerCase
toLowerCase(s) == [i \in 1..Len(s) |-> toLowerChar(s[i])]

\* String.prototype.includes: some position at which sub starts in s
includes(s, sub) ==
    \E k \in 0..(Len(s) - Len(sub)) : SubSeq(s, k + 1, k + Len(sub)) = sub

EMPTY == << >>      \* the string ''

CATEGORIES == <<
    << "E","l","e","c","t","r","o","n","i","c","s" >>,
    << "I","D"," ","C","a","r","d","s"," ","/"," ","W","a","l","l","e","t","s" >>,
    << "K","e","y","s" >>,
    << "B","o","o","k","s"," ","/"," ","N","o","t","e","s" >>,
    << "C","l","o","t","h","i","n","g" >>,
    << "A","c","c","e","s","s","o","r","i","e","s" >>,
    << "O","t","h","e","r","s" >> >>

PostTypes == {"LOST", "FOUND"}
FilterTypes == {"ALL"} \cup PostTypes

-----------------------------------------------------------------------------
(* Filtering: const filteredPosts = posts.filter(...) *)

matchesSearchLiteral(post, term) ==
    \/ includes(toLowerCase(post.title), term)
    \/ includes(toLowerCase(post.description), term)
    \/ includes(toLowerCase(post.location), term)
    \/ includes(toLowerCase(post.category), term)

matchesSearch(post, term) ==
    \/ includes(toLowerCase(post.title), toLowerCase(term))
    \/ includes(toLowerCase(post.description), toLowerCase(term))
    \/ includes(toLowerCase(post.location), toLowerCase(term))
    \/ includes(toLowerCase(post.category), toLowerCase(term))

matchesType(post, ftype) == ftype = "ALL" \/ post.type = ftype

\* a filter that loses the first post it keeps
filterPostsAfterFirst(M, term, ftype) ==
    LET kept == SelectSeq(M, LAMBDA post : matchesSearch(post, term) /\ matchesType(post, ftype))
    IN  IF kept = << >> THEN kept ELSE Tail(kept)

\* Array.prototype.filter keeps the elements the callback accepts, in order
filterPosts(M, term, ftype) ==
    SelectSeq(M, LAMBDA post : matchesSearch(post, term) /\ matchesType(post, ftype))

filteredPosts == filterPosts(posts, searchTerm, filterType)

-----------------------------------------------------------------------------
(* Users, forms and documents *)

NULL == "null"                      \* JavaScript null
Users == {"u1", "u2"}               \* the accounts that sign in on this client

\* firebase/auth User objects (displayName, email, photoURL: string | null):
\* u2's account carries none of the three
displayName == [u \in Users |-> IF u = "u1" THEN "Ann" ELSE NULL]
email == [u \in Users |-> IF u = "u1" THEN "ann@campus" ELSE NULL]
photoURL == [u \in Users |-> IF u = "u1" THEN "ann.png" ELSE NULL]

\* a || b on values that are null, '' or a non-empty string
OrElse(a, b) == IF a = NULL \/ a = "" THEN b ELSE a

Today == "2026-11-02"               \* new Date().toISOString().split('T')[0]

INITIAL_FORM_STATE ==
    [ type |-> "LOST", title |-> EMPTY, description |-> EMPTY, location |-> EMPTY,
      date |-> Today, category |-> CATEGORIES[1], contactEmail |-> "",
      contactPhone |-> "", imageFile |-> NULL ]

\* what the user types or picks in the form
TitleInputs == { << "K","e","y" >> }
DescriptionInputs == { << "r","e","d" >> }
LocationInputs == { << "L","a","b" >> }
SearchInputs == { EMPTY, << "B","A","G" >> }

\* the form's required inputs (the browser blocks the submit event otherwise)
FormValid(f) ==
    /\ f.title # EMPTY
    /\ f.description # EMPTY
    /\ f.location # EMPTY
    /\ f.date # ""
    /\ f.contactEmail # ""

\* createdAt as the SDK hands it over: a Timestamp, or null while the server
\* has not yet assigned serverTimestamp()
Pending == [kind |-> "pending"]
Timestamp(ms) == [kind |-> "ts", millis |-> ms]

\* a post written without the uploaded image's URL
newPostWithoutImage(f, u, imageUrl) ==
    [ type |-> f.type, title |-> f.title, description |-> f.description,
      location |-> f.location, date |-> f.date, category |-> f.category,
      contactEmail |-> f.contactEmail, contactPhone |-> f.contactPhone,
      imageUrl |-> "", createdBy |-> u,
      creatorName |-> OrElse(displayName[u], "Anonymous"),
      creatorPhoto |-> OrElse(photoURL[u], ""),
      createdAt |-> Pending, status |-> "OPEN" ]

\* the object handed to addDoc: newPost with createdAt: serverTimestamp()
newPost(f, u, imageUrl) ==
    [ type |-> f.type, title |-> f.title, description |-> f.description,
      location |-> f.location, date |-> f.date, category |-> f.category,
      contactEmail |-> f.contactEmail, contactPhone |-> f.contactPhone,
      imageUrl |-> imageUrl, createdBy |-> u,
      creatorName |-> OrElse(displayName[u], "Anonymous"),
      creatorPhoto |-> OrElse(photoURL[u], ""),
      createdAt |-> Pending, status |-> "OPEN" ]

Idle == [pc |-> "idle"]

NoStep == [op |-> "none", resp |-> "none", caught |-> FALSE, alerted |-> FALSE]

\* the catch blocks: each logs with console.error, and handleCreatePost's
\* also shows alert("Failed to create post. Please try again.")
createCatch == [caught |-> TRUE, alerted |-> TRUE]
resolveCatch == [caught |-> TRUE, alerted |-> FALSE]
deleteCatch == [caught |-> TRUE, alerted |-> FALSE]
NoCatch == [caught |-> FALSE, alerted |-> FALSE]

\* handleLogin's catch: console.error and alert("Login failed. Please try again.")
loginCatch == [caught |-> TRUE, alerted |-> TRUE]

\* what a step leaves in last: nothing when it was answered "ok", or else the
\* failure it was answered and what the handler did about it
Met(op, resp, reaction) ==
    IF resp = "ok" THEN NoStep
    ELSE [op |-> op, resp |-> resp, caught |-> reaction.caught, alerted |-> reaction.alerted]

-----------------------------------------------------------------------------
(* The document store as the client sees it *)

\* updateDoc(ref, fields): merges fields into an existing document, and is
\* rejected with not-found when there is none
updateDocIfChanged(coll, id, fields) ==
    IF id \in DOMAIN coll /\ \E k \in DOMAIN fields : coll[id][k] # fields[k]
    THEN [ resp |-> "ok",
           coll |-> [coll EXCEPT ![id] =
                       [k \in DOMAIN @ |-> IF k \in DOMAIN fields THEN fields[k] ELSE @[k]]] ]
    ELSE [ resp |-> "NotFoundError", coll |-> coll ]

\* an update that writes the fields whether or not the document exists
updateDocUpserting(coll, id, fields) ==
    [ resp |-> "ok",
      coll |-> [k \in DOMAIN coll \cup {id} |->
                  IF k = id
                  THEN IF id \in DOMAIN coll
                       THEN [f \in DOMAIN coll[id] |->
                               IF f \in DOMAIN fields THEN fields[f] ELSE coll[id][f]]
                       ELSE fields
                  ELSE coll[k]] ]

updateDoc(coll, id, fields) ==
    IF id \in DOMAIN coll
    THEN [ resp |-> "ok",
           coll |-> [coll EXCEPT ![id] =
                       [k \in DOMAIN @ |-> IF k \in DOMAIN fields THEN fields[k] ELSE @[k]]] ]
    ELSE [ resp |-> "NotFoundError", coll |-> coll ]

\* deleteDoc(ref): removes the document; succeeds when there is none
deleteDocStrict(coll, id) ==
    IF id \in DOMAIN coll
    THEN [ resp |-> "ok", coll |-> [k \in DOMAIN coll \ {id} |-> coll[k]] ]
    ELSE [ resp |-> "NotFoundError", coll |-> coll ]

deleteDoc(coll, id) ==
    [ resp |-> "ok", coll |-> [k \in DOMAIN coll \ {id} |-> coll[k]] ]

\* a write the client has issued, applied to its local copy of the collection
applyLocal(view, w) ==
    CASE w.kind = "add" ->
           [k \in DOMAIN view \cup {w.id} |-> IF k = w.id THEN w.data ELSE view[k]]
      [] w.kind = "update" -> updateDoc(view, w.id, w.data).coll
      [] w.kind = "delete" -> deleteDoc(view, w.id).coll

RECURSIVE overlay(_, _)
overlay(view, ws) ==
    IF ws = << >> THEN view ELSE overlay(applyLocal(view, Head(ws)), Tail(ws))

\* what the listener's query sees: the server's documents with this client's
\* unanswered writes on top
LocalView == overlay(store, inflight)

\* orderBy("createdAt", "desc"): a pending server timestamp sorts after every
\* assigned one, so it comes first
SortKey(data) == IF data.createdAt.kind = "ts" THEN data.createdAt.millis ELSE clock + 1

RECURSIVE orderByCreatedAtDesc(_, _)
orderByCreatedAtDesc(view, ids) ==
    IF ids = {} THEN << >>
    ELSE LET m == CHOOSE x \in ids : \A y \in ids : SortKey(view[y]) <= SortKey(view[x])
         IN  << [id |-> m, data |-> view[m]] >> \o orderByCreatedAtDesc(view, ids \ {m})

\* snapshot.docs of a notification raised now
Snapshot == orderByCreatedAtDesc(LocalView, DOMAIN LocalView)

-----------------------------------------------------------------------------
(* The snapshot callback *)

\* data.createdAt && typeof data.createdAt.toMillis === 'function'
\*   ? data.createdAt.toMillis() : (data.createdAt || 0)
normalizeCreatedAt(c) ==
    IF c.kind = "ts" THEN c.millis
    ELSE IF c.kind = "number" THEN c.value
    ELSE 0

\* { id: doc.id, ...data, createdAt: ... }
toPost(d) ==
    ("id" :> d.id) @@ [d.data EXCEPT !.createdAt = normalizeCreatedAt(d.data.createdAt)]

fetchedPosts(docs) == [i \in 1..Len(docs) |-> toPost(docs[i])]

\* setPosts(...)
setPostsMerging(old, docs) == old \o fetchedPosts(docs)

setPosts(old, docs) == fetchedPosts(docs)

-----------------------------------------------------------------------------
(* Rendering *)

\* the posts grid: loading ? spinner : filteredPosts.length > 0 ? cards : "No posts found"
ViewState ==
    IF loading THEN "loading"
    ELSE IF Len(filteredPosts) > 0 THEN "grid"
    ELSE "empty"

\* isOwner={user?.uid === post.createdBy}
isOwner(post) == user # NULL /\ user = post.createdBy

\* controls that do not depend on who is looking
controlsShownToAll(post) == post.status # "RESOLVED"

\* PostCard: {isOwner && post.status !== 'RESOLVED' && (Mark Resolved, Delete)}
controlsShown(post) == isOwner(post) /\ post.status # "RESOLVED"

\* a card of the grid the user can press Mark Resolved or Delete on
Clickable(i) ==
    /\ ViewState = "grid"
    /\ i \in 1..Len(filteredPosts)
    /\ controlsShown(filteredPosts[i])

-----------------------------------------------------------------------------
(* Initial state: the first render, the subscription just established *)

Init ==
    /\ user = NULL
    /\ posts = << >>
    /\ loading = TRUE
    /\ isModalOpen = FALSE
    /\ searchTerm = EMPTY
    /\ filterType = "ALL"
    /\ formState = INITIAL_FORM_STATE
    /\ isSubmitting = FALSE
    /\ create = Idle
    /\ inflight = << >>
    /\ nextId = 1
    /\ store = << >>
    /\ clock = 1
    /\ subStatus = "active"
    /\ lastSnap = [any |-> FALSE, docs |-> << >>]
    /\ scenario \in Scenarios
    /\ last = NoStep

-----------------------------------------------------------------------------
(* Identity session *)

\* the onAuthStateChanged callback.  Its setDoc(users/uid, ..., {merge: true})
\* writes the "users" collection, which nothing in the component reads, and a
\* failure of it is caught and logged: neither outcome changes the state here.
AuthStateChanged(currentUser) ==
    /\ user' = currentUser
    /\ formState' = IF currentUser # NULL
                    THEN [formState EXCEPT !.contactEmail = OrElse(email[currentUser], "")]
                    ELSE formState

\* handleLogin, the popup succeeding
LoginSucceeds ==
    /\ user = NULL
    /\ \E u \in Users : (u = "u1" \/ scenario = "accounts") /\ AuthStateChanged(u)
    /\ last' = NoStep
    /\ UNCHANGED << posts, loading, isModalOpen, searchTerm, filterType, isSubmitting,
                    create, inflight, nextId, store, clock, subStatus,
                    lastSnap, scenario >>

\* handleLogin, the popup failing or being closed
LoginFails ==
    /\ scenario = "accounts"
    /\ user = NULL
    /\ last' = Met("login", "AuthError", loginCatch)
    /\ UNCHANGED << user, posts, loading, isModalOpen, searchTerm, filterType, formState,
                    isSubmitting, create, inflight, nextId, store, clock,
                    subStatus, lastSnap, scenario >>

\* handleLogout
Logout ==
    /\ user # NULL
    /\ AuthStateChanged(NULL)
    /\ last' = NoStep
    /\ UNCHANGED << posts, loading, isModalOpen, searchTerm, filterType, isSubmitting,
                    create, inflight, nextId, store, clock, subStatus,
                    lastSnap, scenario >>

-----------------------------------------------------------------------------
(* Search box, type filter, modal and form *)

\* the search box's onChange, the user typing one of the texts of Q
SetSearchTermFrom(Q) ==
    /\ scenario = "browse"
    /\ \E q \in Q : q # searchTerm /\ searchTerm' = q
    /\ last' = NoStep
    /\ UNCHANGED << user, posts, loading, isModalOpen, filterType, formState,
                    isSubmitting, create, inflight, nextId, store, clock,
                    subStatus, lastSnap, scenario >>

SetSearchTerm == SetSearchTermFrom(SearchInputs)

\* the All Posts / Lost Items / Found Items buttons
SetFilterType ==
    /\ scenario = "browse"
    /\ \E t \in FilterTypes : t # filterType /\ filterType' = t
    /\ last' = NoStep
    /\ UNCHANGED << user, posts, loading, isModalOpen, searchTerm, formState,
                    isSubmitting, create, inflight, nextId, store, clock,
                    subStatus, lastSnap, scenario >>

\* the Post Item buttons are rendered only for a signed-in user
OpenModal ==
    /\ user # NULL
    /\ ~isModalOpen
    /\ isModalOpen' = TRUE
    /\ last' = NoStep
    /\ UNCHANGED << user, posts, loading, searchTerm, filterType, formState,
                    isSubmitting, create, inflight, nextId, store, clock,
                    subStatus, lastSnap, scenario >>

CloseModal ==
    /\ isModalOpen
    /\ isModalOpen' = FALSE
    /\ last' = NoStep
    /\ UNCHANGED << user, posts, loading, searchTerm, filterType, formState,
                    isSubmitting, create, inflight, nextId, store, clock,
                    subStatus, lastSnap, scenario >>

\* the form's onChange handlers and handleFileChange; the user types the three
\* required texts in one go
EditForm ==
    /\ isModalOpen
    /\ \/ \E t \in TitleInputs, d \in DescriptionInputs, l \in LocationInputs :
            formState' = [formState EXCEPT !.title = t, !.description = d, !.location = l]
       \/ scenario = "upload" /\ formState' = [formState EXCEPT !.imageFile = "file"]
    /\ formState' # formState
    /\ last' = NoStep
    /\ UNCHANGED << user, posts, loading, isModalOpen, searchTerm, filterType,
                    isSubmitting, create, inflight, nextId, store, clock,
                    subStatus, lastSnap, scenario >>

-----------------------------------------------------------------------------
(* Create *)

\* uploadImageToImgBB: what the awaited call does with the host's answer.
\* "ok": data.success; "rejected": the host answers without success;
\* "netfail": fetch itself rejects.  Both failures are logged and rethrown.
uploadSwallowingErrors(answer) ==
    IF answer = "ok" THEN [threw |-> FALSE, url |-> "https://i.ibb.co/img"]
    ELSE [threw |-> FALSE, url |-> ""]

uploadImageToImgBB(answer) ==
    IF answer = "ok" THEN [threw |-> FALSE, url |-> "https://i.ibb.co/img"]
    ELSE [threw |-> TRUE, url |-> ""]

UploadAnswers == {"ok", "rejected", "netfail"}

\* await addDoc(collection(db, "posts"), {...newPost, createdAt: serverTimestamp()}):
\* the client picks the document id and queues the write
addDocUnderFixedId(data) == Append(inflight, [kind |-> "add", id |-> 1, data |-> data])

addDoc(data) == Append(inflight, [kind |-> "add", id |-> nextId, data |-> data])

\* what a queued write is answered: applied by the server, or failed on the
\* way (network, permission)
WriteAnswers == IF scenario = "outage" THEN {"ok", "WriteError"} ELSE {"ok"}

\* handleCreatePost without a session: if (!user) return
createWithoutUser == Met("create", "NoSession", NoCatch)

\* a Submit Post button that stays enabled
submitNeverDisabled == FALSE

\* the Submit Post button: <Button type="submit" isLoading={isSubmitting}>,
\* rendered with disabled={isLoading || props.disabled}
submitDisabled == isSubmitting

\* handleCreatePost up to its first await.  The submit button is disabled
\* while isSubmitting, and the browser validates the required inputs first.
HandleCreatePost ==
    /\ isModalOpen
    /\ ~submitDisabled
    /\ FormValid(formState)
    /\ IF user = NULL
       THEN /\ last' = createWithoutUser
            /\ UNCHANGED << isSubmitting, create, inflight, nextId >>
       ELSE /\ isSubmitting' = TRUE
            /\ IF formState.imageFile # NULL
               THEN /\ create' = [pc |-> "uploading", form |-> formState, user |-> user]
                    /\ UNCHANGED << inflight, nextId >>
               ELSE /\ Len(inflight) < MaxInflight
                    /\ nextId <= MaxPosts
                    /\ inflight' = addDoc(newPost(formState, user, ""))
                    /\ nextId' = nextId + 1
                    /\ create' = [pc |-> "writing", user |-> user]
            /\ last' = NoStep
    /\ UNCHANGED << user, posts, loading, isModalOpen, searchTerm, filterType, formState,
                    store, clock, subStatus, lastSnap, scenario >>

\* handleCreatePost resumed by the upload's answer
UploadResponds ==
    /\ create.pc = "uploading"
    /\ \E answer \in UploadAnswers :
         LET r == uploadImageToImgBB(answer) IN
         /\ last' = Met("upload", answer, IF r.threw THEN createCatch ELSE NoCatch)
         /\ IF r.threw
            THEN /\ isSubmitting' = FALSE
                 /\ create' = Idle
                 /\ UNCHANGED << inflight, nextId >>
            ELSE /\ Len(inflight) < MaxInflight
                 /\ nextId <= MaxPosts
                 /\ inflight' = addDoc(newPost(create.form, create.user, r.url))
                 /\ nextId' = nextId + 1
                 /\ create' = [pc |-> "writing", user |-> create.user]
                 /\ UNCHANGED isSubmitting
    /\ UNCHANGED << user, posts, loading, isModalOpen, searchTerm, filterType, formState,
                    store, clock, subStatus, lastSnap, scenario >>

\* the oldest write is an addDoc and is answered: the server stores the
\* document under its id with its own time as createdAt, or the write fails;
\* handleCreatePost resumes after await addDoc
AddDocResponds ==
    /\ inflight # << >>
    /\ Head(inflight).kind = "add"
    /\ inflight' = Tail(inflight)
    /\ \E net \in WriteAnswers :
         /\ last' = Met("addDoc", net, createCatch)
         /\ IF net = "ok"
            THEN /\ LET w == Head(inflight) IN
                    store' = [k \in DOMAIN store \cup {w.id} |->
                                IF k = w.id THEN [w.data EXCEPT !.createdAt = Timestamp(clock)]
                                ELSE store[k]]
                 /\ clock' = clock + 1
                 /\ isModalOpen' = FALSE
                 /\ formState' = [INITIAL_FORM_STATE EXCEPT
                                    !.contactEmail = OrElse(email[create.user], "")]
            ELSE UNCHANGED << store, clock, isModalOpen, formState >>
    /\ isSubmitting' = FALSE
    /\ create' = Idle
    /\ UNCHANGED << user, posts, loading, searchTerm, filterType, nextId,
                    subStatus, lastSnap, scenario >>

-----------------------------------------------------------------------------
(* Resolve and Delete *)

\* updateDoc(postRef, { status: 'RESOLVED' })
resolveFields == [status |-> "RESOLVED"]

\* handleResolvePost up to its await, pressed on a card and confirmed
HandleResolvePost ==
    /\ Len(inflight) < MaxInflight
    /\ \E i \in 1..Len(filteredPosts) :
         /\ Clickable(i)
         /\ inflight' = Append(inflight, [kind |-> "update", id |-> filteredPosts[i].id,
                                          data |-> resolveFields])
    /\ last' = NoStep
    /\ UNCHANGED << user, posts, loading, isModalOpen, searchTerm, filterType, formState,
                    isSubmitting, create, nextId, store, clock, subStatus, lastSnap, scenario >>

\* handleDeletePost up to its await, pressed on a card and confirmed
HandleDeletePostOptimistic ==
    /\ Len(inflight) < MaxInflight
    /\ \E i \in 1..Len(filteredPosts) :
         /\ Clickable(i)
         /\ inflight' = Append(inflight, [kind |-> "delete", id |-> filteredPosts[i].id])
         /\ posts' = SelectSeq(posts, LAMBDA p : p.id # filteredPosts[i].id)
    /\ last' = NoStep
    /\ UNCHANGED << user, loading, isModalOpen, searchTerm, filterType, formState,
                    isSubmitting, create, nextId, store, clock, subStatus,
                    lastSnap, scenario >>

HandleDeletePost ==
    /\ Len(inflight) < MaxInflight
    /\ \E i \in 1..Len(filteredPosts) :
         /\ Clickable(i)
         /\ inflight' = Append(inflight, [kind |-> "delete", id |-> filteredPosts[i].id])
    /\ last' = NoStep
    /\ UNCHANGED << user, posts, loading, isModalOpen, searchTerm, filterType, formState,
                    isSubmitting, create, nextId, store, clock, subStatus, lastSnap, scenario >>

\* the oldest write is an updateDoc and is answered; handleResolvePost resumes
UpdateDocResponds ==
    /\ inflight # << >>
    /\ Head(inflight).kind = "update"
    /\ inflight' = Tail(inflight)
    /\ \E net \in WriteAnswers :
         LET w == Head(inflight)
             r == IF net = "ok" THEN updateDoc(store, w.id, w.data)
                  ELSE [resp |-> net, coll |-> store]
         IN  /\ store' = r.coll
             /\ last' = Met("resolve", r.resp, resolveCatch)
    /\ UNCHANGED << user, posts, loading, isModalOpen, searchTerm, filterType, formState,
                    isSubmitting, create, nextId, clock, subStatus,
                    lastSnap, scenario >>

\* the oldest write is a deleteDoc and is answered; handleDeletePost resumes
DeleteDocResponds ==
    /\ inflight # << >>
    /\ Head(inflight).kind = "delete"
    /\ inflight' = Tail(inflight)
    /\ \E net \in WriteAnswers :
         LET w == Head(inflight)
             r == IF net = "ok" THEN deleteDoc(store, w.id)
                  ELSE [resp |-> net, coll |-> store]
         IN  /\ store' = r.coll
             /\ last' = Met("delete", r.resp, deleteCatch)
    /\ UNCHANGED << user, posts, loading, isModalOpen, searchTerm, filterType, formState,
                    isSubmitting, create, nextId, clock, subStatus,
                    lastSnap, scenario >>

-----------------------------------------------------------------------------
(* Post store sync *)

\* the callback without its setLoading(false)
OnSnapshotWithoutSetLoading ==
    /\ subStatus = "active"
    /\ lastSnap # [any |-> TRUE, docs |-> Snapshot]
    /\ posts' = setPosts(posts, Snapshot)
    /\ lastSnap' = [any |-> TRUE, docs |-> Snapshot]
    /\ last' = NoStep
    /\ UNCHANGED << user, loading, isModalOpen, searchTerm, filterType, formState,
                    isSubmitting, create, inflight, nextId, store, clock, subStatus,
                    scenario >>

\* the onSnapshot callback, run by the SDK with the query's whole current
\* result when that differs from the one it passed last (the first time: the
\* initial load): setPosts(fetchedPosts); setLoading(false).  The mirror lags
\* behind the collection for as long as this step has not been taken.
OnSnapshot ==
    /\ subStatus = "active"
    /\ lastSnap # [any |-> TRUE, docs |-> Snapshot]
    /\ posts' = setPosts(posts, Snapshot)
    /\ loading' = FALSE
    /\ lastSnap' = [any |-> TRUE, docs |-> Snapshot]
    /\ last' = NoStep
    /\ UNCHANGED << user, isModalOpen, searchTerm, filterType, formState, isSubmitting,
                    create, inflight, nextId, store, clock, subStatus, scenario >>

\* the subscription breaks: onSnapshot was given no error callback, so the
\* listener just ends and nothing in the component changes
SubscriptionFails ==
    /\ scenario = "outage"
    /\ subStatus = "active"
    /\ subStatus' = "failed"
    /\ last' = NoStep
    /\ UNCHANGED << user, posts, loading, isModalOpen, searchTerm, filterType, formState,
                    isSubmitting, create, inflight, nextId, store, clock,
                    lastSnap, scenario >>

-----------------------------------------------------------------------------

Next ==
    \/ LoginSucceeds
    \/ LoginFails
    \/ Logout
    \/ SetSearchTerm
    \/ SetFilterType
    \/ OpenModal
    \/ CloseModal
    \/ EditForm
    \/ HandleCreatePost
    \/ UploadResponds
    \/ AddDocResponds
    \/ HandleResolvePost
    \/ HandleDeletePost
    \/ UpdateDocResponds
    \/ DeleteDocResponds
    \/ OnSnapshot
    \/ SubscriptionFails

Spec == Init /\ [][Next]_vars

-----------------------------------------------------------------------------
(* The filter on its own: any mirror a notification can have left, the user *)
(* typing in the search box and pressing the filter buttons                 *)

\* the texts and types of the documents the mirror is drawn from
CardContents ==
    { [ type |-> t, title |-> ti, description |-> << "r","e","d" >>, location |-> l,
        category |-> c ] :
        t \in PostTypes,
        ti \in { << "K","e","y" >>, << "B","a","g" >> },
        l \in { << "L","a","b" >>, << "B","a","y"," ","2" >> },
        c \in { CATEGORIES[3], CATEGORIES[4] } }

\* a post of the mirror with the given content, stored under id i at time i
Card(i, c) ==
    toPost([ id |-> i,
             data |-> [ newPost([INITIAL_FORM_STATE EXCEPT
                                   !.type = c.type, !.title = c.title,
                                   !.description = c.description,
                                   !.location = c.location, !.category = c.category,
                                   !.contactEmail = email["u1"]], "u1", "")
                        EXCEPT !.createdAt = Timestamp(i) ] ])

\* mirrors of up to MaxMirror posts, newest first
Mirrors ==
    UNION { { [i \in 1..n |-> Card(n + 1 - i, f[i])] : f \in [1..n -> CardContents] } :
            n \in 0..MaxMirror }

\* what the user types in the search box
Queries ==
    { EMPTY, << "k","e","y" >>, << "K","E","Y" >>, << "b","A" >>, << "B","a" >>,
      << " ","2" >>, << "e","d" >>, << "N","O","T","E","S" >>, << "x" >> }

InitFilter ==
    /\ user = NULL
    /\ posts \in Mirrors
    /\ loading = FALSE
    /\ isModalOpen = FALSE
    /\ searchTerm = EMPTY
    /\ filterType = "ALL"
    /\ formState = INITIAL_FORM_STATE
    /\ isSubmitting = FALSE
    /\ create = Idle
    /\ inflight = << >>
    /\ nextId = 1
    /\ store = << >>
    /\ clock = 1
    /\ subStatus = "active"
    /\ lastSnap = [any |-> FALSE, docs |-> << >>]
    /\ scenario = "browse"
    /\ last = NoStep

TypeInSearchBox == SetSearchTermFrom(Queries)

NextFilter ==
    \/ TypeInSearchBox
    \/ SetFilterType

SpecFilter == InitFilter /\ [][NextFilter]_vars

-----------------------------------------------------------------------------
(* C1 *)

\* two characters that are the same letter, in whichever case
SameLetter(a, b) ==
    a = b \/ \E i \in 1..Len(Upper) : {a, b} = {Upper[i], Lower[i]}

\* q occurs in s at some position, letter case ignored
OccursIgnoringCase(q, s) ==
    \E k \in 0..(Len(s) - Len(q)) : \A j \in 1..Len(q) : SameLetter(q[j], s[k + j])

\* the posts the contract wants shown
Wanted(p, q, t) ==
    /\ t = "ALL" \/ p.type = t
    /\ \E s \in {p.title, p.description, p.location, p.category} : OccursIgnoringCase(q, s)

\* the position in M of the k-th wanted post
NthWanted(M, q, t, k) ==
    CHOOSE i \in 1..Len(M) :
        /\ Wanted(M[i], q, t)
        /\ Cardinality({j \in 1..(i - 1) : Wanted(M[j], q, t)}) = k - 1

SameIgnoringCase(q1, q2) ==
    Len(q1) = Len(q2) /\ \A j \in 1..Len(q1) : SameLetter(q1[j], q2[j])

\* C1: the filtered view is exactly the wanted posts of the mirror, in the
\* mirror's order: a post is wanted when the type filter is ALL or its type,
\* and the search text occurs, letter case ignored, in its title, description,
\* location or category.  Search texts that differ only in letter case give
\* the same view, and a LOST (FOUND) filter shows no FOUND (LOST) post.
C1_FilterIsTheWantedSubsequence ==
    /\ Len(filteredPosts) =
         Cardinality({i \in 1..Len(posts) : Wanted(posts[i], searchTerm, filterType)})
    /\ \A k \in 1..Len(filteredPosts) :
         filteredPosts[k] = posts[NthWanted(posts, searchTerm, filterType, k)]
    /\ \A q \in Queries :
         SameIgnoringCase(q, searchTerm)
            => filterPosts(posts, q, filterType) = filteredPosts
    /\ \A k \in 1..Len(filteredPosts) :
         filterType # "ALL" => filteredPosts[k].type = filterType

\* an upper-case search text and a type filter that keep the second post of
\* the mirror and drop the first
C1_Witness ==
    /\ searchTerm = << "K","E","Y" >>
    /\ filterType = "FOUND"
    /\ Len(posts) = 2
    /\ filteredPosts = << posts[2] >>

-----------------------------------------------------------------------------
(* C2 *)

\* C2: the mirror is the empty list while no notification has been handled,
\* and afterwards it is, document for document and in the same order, the
\* whole result set of the notification handled last.
C2_MirrorIsTheLastSnapshot ==
    IF ~lastSnap.any THEN posts = << >>
    ELSE /\ Len(posts) = Len(lastSnap.docs)
         /\ \A i \in 1..Len(posts) :
              /\ posts[i].id = lastSnap.docs[i].id
              /\ \A k \in DOMAIN lastSnap.docs[i].data \ {"createdAt"} :
                   posts[i][k] = lastSnap.docs[i].data[k]

\* document 1 was shown, deleted on its card, and a later notification left
\* only document 2 in the mirror
C2_Witness ==
    /\ lastSnap.any
    /\ DOMAIN store = {2}
    /\ Len(posts) = 1
    /\ posts[1].id = 2

-----------------------------------------------------------------------------
(* C3 *)

\* the step in which the suspended Create is answered that its upload failed
UploadFailsStep == create.pc = "uploading" /\ last'.op = "upload"

\* C3: when the image upload of a Create fails, the Create ends in its catch
\* block and writes nothing: no write is queued, no id is taken and the
\* collection is as it was.
C3_FailedUploadWritesNothing ==
    [][ UploadFailsStep =>
          /\ last'.caught
          /\ create'.pc = "idle"
          /\ inflight' = inflight
          /\ nextId' = nextId
          /\ store' = store ]_vars

\* just after an upload failed
C3_Witness ==
    /\ last.op = "upload"
    /\ last.resp \in {"rejected", "netfail"}
    /\ create.pc = "idle"

-----------------------------------------------------------------------------
(* C4 *)

\* C4: a mutation invoked without a signed-in user is refused with an error
\* shown to the caller, before any remote call.
C4_NoSessionIsReported ==
    last.resp = "NoSession" => last.alerted

-----------------------------------------------------------------------------
(* C5 *)

IsResolved(id) == id \in DOMAIN store /\ store[id].status = "RESOLVED"
IsOpen(id) == id \in DOMAIN store /\ store[id].status = "OPEN"

\* C5: a document enters the collection with status OPEN, and once a
\* document is RESOLVED in the collection, no later state has a document of
\* that id with status OPEN.
C5_StatusNeverReverts ==
    /\ [][ \A id \in DOMAIN store' \ DOMAIN store : store'[id].status = "OPEN" ]_vars
    /\ \A id \in 1..MaxPosts : [](IsResolved(id) => [](~IsOpen(id)))

\* a RESOLVED document next to one created after it that is still OPEN
C5_Witness ==
    /\ IsResolved(1)
    /\ IsOpen(2)

-----------------------------------------------------------------------------
(* C6 *)

\* the step in which the server answers the oldest write, of the given kind
Answered(kind) ==
    /\ inflight # << >>
    /\ Head(inflight).kind = kind
    /\ inflight' = Tail(inflight)
    /\ last'.resp # "WriteError"

\* C6: a Resolve that reaches the server for an existing document ends
\* without an error and leaves the document as it was but for status =
\* RESOLVED: unchanged when it was RESOLVED already, so that overlapping
\* Resolves of one post end with it RESOLVED.
C6_ResolveIsIdempotent ==
    [][ (Answered("update") /\ Head(inflight).id \in DOMAIN store) =>
          /\ last' = NoStep
          /\ store' = [store EXCEPT ![Head(inflight).id].status = "RESOLVED"] ]_vars

\* a second Resolve of a document is in flight when the first has made it
\* RESOLVED, the mirror still showing it OPEN
C6_Witness ==
    /\ inflight # << >>
    /\ Head(inflight).kind = "update"
    /\ IsResolved(Head(inflight).id)
    /\ \E i \in 1..Len(posts) : posts[i].id = Head(inflight).id /\ posts[i].status = "OPEN"

-----------------------------------------------------------------------------
(* C7 *)

\* C7: a Delete that reaches the server for an id with no document ends
\* without an error and leaves the collection as it was.
C7_DeleteIsIdempotent ==
    [][ (Answered("delete") /\ Head(inflight).id \notin DOMAIN store) =>
          /\ last' = NoStep
          /\ store' = store ]_vars

\* a Delete is in flight for a document that an earlier Delete has removed
C7_Witness ==
    /\ inflight # << >>
    /\ Head(inflight).kind = "delete"
    /\ Head(inflight).id \notin DOMAIN store
    /\ Head(inflight).id < nextId

-----------------------------------------------------------------------------
(* C8 *)

\* C8: a step that changes the mirror is the listener handling a
\* notification and nothing else: it changes no session, search text, type
\* filter, form, Create in progress, queued write or document.
C8_OnlyTheListenerWritesTheMirror ==
    [][ posts' # posts =>
          /\ subStatus = "active"
          /\ lastSnap'.any
          /\ lastSnap' # lastSnap
          /\ UNCHANGED << user, searchTerm, filterType, formState, isModalOpen,
                          isSubmitting, create, inflight, nextId, store, clock >> ]_vars

\* a created document is in the collection and the mirror, which has handled
\* a notification, does not show it yet
C8_Witness ==
    /\ lastSnap.any
    /\ posts = << >>
    /\ DOMAIN store # {}
    /\ inflight = << >>

-----------------------------------------------------------------------------
(* C9 *)

\* C9: every failure of a Create, Resolve or Delete is shown to the user.
C9_EveryFailureIsShown ==
    last.op \in {"upload", "addDoc", "resolve", "delete"} => last.alerted

-----------------------------------------------------------------------------
(* C10 *)

\* C10: once the subscription has failed, the view shows an error state that
\* is neither the spinner nor "No posts found" nor the cards.
C10_SubscriptionFailureIsShown ==
    subStatus = "failed" => ViewState \notin {"loading", "empty", "grid"}

-----------------------------------------------------------------------------
(* C11 *)

\* the step in which the listener processes a notification
NotificationProcessed == lastSnap' # lastSnap

\* C11: the loading flag is true exactly as long as no notification has been
\* processed: true at first, false from the first notification on, and no step
\* other than the processing of a notification changes it.
C11_LoadingUntilFirstNotification ==
    /\ [](loading <=> ~lastSnap.any)
    /\ [][ /\ loading' # loading => NotificationProcessed /\ loading /\ ~loading'
           /\ ~loading => ~loading' ]_vars

\* a second notification has been processed and more than the loading flag
\* has happened since: the flag is still false
C11_Witness ==
    /\ ~loading
    /\ lastSnap.any
    /\ Len(posts) = 2
    /\ user = NULL

-----------------------------------------------------------------------------
(* C12 *)

\* the step in which a Create issues its document write, and the write issued
CreateWrites ==
    /\ Len(inflight') = Len(inflight) + 1
    /\ inflight'[Len(inflight')].kind = "add"

Written == inflight'[Len(inflight')].data

\* the step in which the server stores the document of the oldest write
CreateStored == \E id \in DOMAIN store' : id \notin DOMAIN store

\* C12: the document a Create writes has status OPEN, the uid of the user who
\* was signed in when the Create was invoked as createdBy, and as imageUrl the
\* URL the upload returned when an image was attached and '' when none was;
\* the server stores it as written, and the Create whose write is stored ends
\* without a failure.  A Create with no image issues its write at once.
C12_CreatedDocumentFields ==
    /\ [][ CreateWrites =>
             /\ Written.status = "OPEN"
             /\ IF create.pc = "uploading"
                THEN /\ create.form.imageFile # NULL
                     /\ Written.createdBy = create.user
                     /\ Written.imageUrl = uploadImageToImgBB("ok").url
                     /\ Written.imageUrl # ""
                ELSE /\ formState.imageFile = NULL
                     /\ user # NULL
                     /\ Written.createdBy = user
                     /\ Written.imageUrl = "" ]_vars
    /\ [][ CreateStored =>
             \A id \in DOMAIN store' \ DOMAIN store :
                /\ id = Head(inflight).id
                /\ store'[id].status = "OPEN"
                /\ store'[id].createdBy = Head(inflight).data.createdBy
                /\ store'[id].createdBy = create.user
                /\ store'[id].imageUrl = Head(inflight).data.imageUrl
                /\ last' = NoStep
                /\ create'.pc = "idle" ]_vars
    /\ [][ (create.pc = "idle" /\ create'.pc # "idle" /\ formState.imageFile = NULL)
             => CreateWrites ]_vars

\* a document with an uploaded image is stored under the uid of its creator,
\* who signed out in the meantime
C12_Witness ==
    /\ user = NULL
    /\ \E id \in DOMAIN store :
         /\ store[id].imageUrl # ""
         /\ store[id].createdBy = "u1"
         /\ store[id].status = "OPEN"

-----------------------------------------------------------------------------
(* C13 *)

\* C13: filtering the filtered view again, with the same search text and type
\* filter, gives the filtered view.
C13_FilterIsIdempotent ==
    filterPosts(filteredPosts, searchTerm, filterType) = filteredPosts

\* a search text and a type filter that keep one post of two
C13_Witness ==
    /\ searchTerm = << "b","A" >>
    /\ filterType = "LOST"
    /\ Len(posts) = 2
    /\ Len(filteredPosts) = 1

-----------------------------------------------------------------------------
(* C14 *)

\* the step in which a Resolve or a Delete is started, and the write it issues
MutationStarted ==
    /\ Len(inflight') = Len(inflight) + 1
    /\ inflight'[Len(inflight')].kind \in {"update", "delete"}

\* the post of the mirror is the signed-in user's own and shown as OPEN
OwnAndOpen(p) == user # NULL /\ p.createdBy = user /\ p.status = "OPEN"

\* C14: Mark Resolved and Delete are offered on a post of the mirror only to
\* the signed-in user who created it and only while the mirror shows it OPEN,
\* and a Resolve or Delete is started only on such a post.
C14_ControlsOnlyForOwnOpenPosts ==
    /\ [](\A i \in 1..Len(posts) : controlsShown(posts[i]) => OwnAndOpen(posts[i]))
    /\ [][ MutationStarted =>
             \E i \in 1..Len(posts) :
                /\ posts[i].id = inflight'[Len(inflight')].id
                /\ OwnAndOpen(posts[i]) ]_vars

\* another user looks at an OPEN post, and its owner at a RESOLVED one
C14_Witness ==
    /\ ViewState = "grid"
    /\ \/ /\ user = "u2"
          /\ \E i \in 1..Len(filteredPosts) :
               filteredPosts[i].createdBy = "u1" /\ filteredPosts[i].status = "OPEN"
       \/ /\ user = "u1"
          /\ \E i \in 1..Len(filteredPosts) :
               filteredPosts[i].createdBy = "u1" /\ filteredPosts[i].status = "RESOLVED"

-----------------------------------------------------------------------------
(* C15 *)

\* C15: the mirror is ordered by createdAt descending, createdAt being the
\* number the mirror holds (0 for a post whose server timestamp is pending):
\* of two adjacent posts the first has the greater or equal createdAt.
C15_MirrorIsOrderedNewestFirst ==
    \A i \in 1..(Len(posts) - 1) : posts[i].createdAt >= posts[i + 1].createdAt

-----------------------------------------------------------------------------
(* C16 *)

\* the document writes of Creates that the server has not answered yet
CreatesWriting == {k \in 1..Len(inflight) : inflight[k].kind = "add"}

\* C16: a Create is running exactly while the submitting flag is true, the
\* Submit Post button is disabled for as long, at most one Create has a write
\* unanswered, and while the flag stays true the only step of a Create is the
\* running one going from its upload to its write.
C16_OneCreateAtATime ==
    /\ [](/\ isSubmitting <=> create.pc # "idle"
          /\ isSubmitting => submitDisabled
          /\ Cardinality(CreatesWriting) = IF create.pc = "writing" THEN 1 ELSE 0)
    /\ [][ (isSubmitting /\ isSubmitting') =>
             \/ create' = create
             \/ create.pc = "uploading" /\ create'.pc = "writing" ]_vars

\* a second Create is running after the first one's document was stored
C16_Witness ==
    /\ isSubmitting
    /\ create.pc = "writing"
    /\ DOMAIN store # {}

-----------------------------------------------------------------------------
(* C17 *)

\* the id has been given to a post, and the collection holds no document
\* under it and no Create is still about to store one: the post was deleted
\* (or its Create failed)
Gone(id) ==
    /\ id < nextId
    /\ id \notin DOMAIN store
    /\ \A k \in 1..Len(inflight) : inflight[k].kind = "add" => inflight[k].id # id

\* the step in which the server answers a Resolve of a post that is not there
ResolveReachesGonePost ==
    /\ inflight # << >>
    /\ Head(inflight).kind = "update"
    /\ Head(inflight).id \notin DOMAIN store
    /\ inflight' = Tail(inflight)

\* C17: a deleted post stays deleted: its document never exists again, no
\* notification processed afterwards has it in the mirror, and a Resolve that
\* reaches the server after the Delete fails and stores nothing.
C17_DeletedPostStaysDeleted ==
    /\ [][ \A id \in 1..MaxPosts : Gone(id) => Gone(id)' ]_vars
    /\ [][ \A id \in 1..MaxPosts :
             (Gone(id) /\ posts' # posts) => \A i \in 1..Len(posts') : posts'[i].id # id ]_vars
    /\ [][ ResolveReachesGonePost =>
             /\ store' = store
             /\ last'.op = "resolve"
             /\ last'.resp \in {"NotFoundError", "WriteError"} ]_vars

\* a Resolve started before the Delete of the same post was answered has
\* reached the server after it and failed; the post is gone
C17_Witness ==
    /\ last.op = "resolve"
    /\ last.resp = "NotFoundError"
    /\ \E id \in 1..MaxPosts : Gone(id)
    /\ store = << >>

====
